---- MODULE Spec2Model ----
(***************************************************************************)
(* Model of src/rewst-library.js: the workflow execution lifecycle         *)
(* (executeWorkflow, waitForWorkflowCompletion), the sessionStorage        *)
(* result cache (clearWorkflowCache), the global skip_cache setting, the   *)
(* forms (evaluateConditionalVisibility, validateForm, submitForm), the    *)
(* workflow lists (getAllWorkflows, getAllWorkflowsOG, setOrgId) and       *)
(* graphqlQuery.                                                           *)
(*                                                                         *)
(* JavaScript strings are sequences of string chunks (one chunk per        *)
(* character wherever the code inspects characters).  Each async function  *)
(* call is a task; a task moves at its suspension points (await).          *)
(***************************************************************************)
EXTENDS Integers, Sequences, FiniteSets, TLC

VARIABLES skip_cache, sessionStorage, calls, callsLeft, written,
          fieldConfigs, formData, document, submit,
          ORG_ID, workflowsCache, lists, request

\* the form a page shows: the field configurations, the form data handed to
\* validateForm and submitForm, the DOM (input elements and display
\* regions) and the submitForm call
formVars == <<fieldConfigs, formData, document, submit>>

\* window.ORG_ID, the workflow list cache (let workflowsCache) and the calls
\* of getAllWorkflows and getAllWorkflowsOG
listVars == <<ORG_ID, workflowsCache, lists>>

vars ==
  <<skip_cache, sessionStorage, calls, callsLeft, written, formVars, listVars,
    request>>

(***************************************************************************)
(* Bounds of the model.                                                    *)
(***************************************************************************)
\* number of executeWorkflow calls the caller makes in one behaviour
MaxCalls == 2

\* the caller's tasks (slots in which an executeWorkflow call can run)
Tasks == {1, 2}

(***************************************************************************)
(* JavaScript values.                                                      *)
(***************************************************************************)
Max(a, b) == IF a >= b THEN a ELSE b

\* String.prototype.toUpperCase, character by character
UpperChar(ch) ==
  CASE ch = "a" -> "A" [] ch = "c" -> "C" [] ch = "d" -> "D" [] ch = "e" -> "E"
    [] ch = "f" -> "F" [] ch = "g" -> "G" [] ch = "i" -> "I" [] ch = "l" -> "L"
    [] ch = "m" -> "M" [] ch = "n" -> "N" [] ch = "o" -> "O" [] ch = "p" -> "P"
    [] ch = "r" -> "R" [] ch = "s" -> "S" [] ch = "t" -> "T" [] ch = "u" -> "U"
    [] OTHER -> ch

toUpperCase(s) == [i \in DOMAIN s |-> UpperChar(s[i])]

\* s.startsWith(prefix)
startsWith(s, prefix) ==
  /\ Len(prefix) <= Len(s)
  /\ SubSeq(s, 1, Len(prefix)) = prefix

\* the statuses of the remote execution used in the model
COMPLETED == <<"C", "O", "M", "P", "L", "E", "T", "E", "D">>
Completed == <<"C", "o", "m", "p", "l", "e", "t", "e", "d">>
completed == <<"c", "o", "m", "p", "l", "e", "t", "e", "d">>
SUCCESS   == <<"S", "U", "C", "C", "E", "S", "S">>
SUCCEEDED == <<"S", "U", "C", "C", "E", "E", "D", "E", "D">>
succeeded == <<"s", "u", "c", "c", "e", "e", "d", "e", "d">>
FAILED    == <<"F", "A", "I", "L", "E", "D">>
failed    == <<"f", "a", "i", "l", "e", "d">>
ERROR     == <<"E", "R", "R", "O", "R">>
RUNNING   == <<"R", "U", "N", "N", "I", "N", "G">>
pending   == <<"p", "e", "n", "d", "i", "n", "g">>
\* a status that is missing from the response (undefined; not a string)
NoStatus  == <<"undefined">>
\* a status that is not a string (the number 42): it has no toUpperCase
NumberStatus == <<"42">>

\* const terminalStates (line 697)
terminalStates == <<COMPLETED, SUCCESS, succeeded, FAILED, failed, ERROR>>

\* terminalStates.some(s => execution.status?.toUpperCase?.() === s.toUpperCase())
\* s.toUpperCase() for every s of terminalStates
upperTerminalStates == [i \in DOMAIN terminalStates |-> toUpperCase(terminalStates[i])]

IsUpperTerminal(upper) == \E i \in DOMAIN upperTerminalStates : upper = upperTerminalStates[i]

IsTerminalMutant(status) ==
  /\ status \notin {NoStatus, NumberStatus}
  /\ \E i \in DOMAIN terminalStates : status = terminalStates[i]

IsTerminal(status) ==
  /\ status \notin {NoStatus, NumberStatus}
  /\ IsUpperTerminal(toUpperCase(status))

\* values of conductor.output: absent, null, {}, [], "", and two objects with entries
Outputs == {"undefined", "null", "emptyObject", "emptyArray", "emptyString", "obj1", "obj2"}

Falsy == {"undefined", "null", "emptyString"}

\* !output || (typeof output === 'object' && Object.keys(output).length === 0)
IsEmptyOutput(output) ==
  \/ output \in Falsy
  \/ output \in {"emptyObject", "emptyArray"}

\* values of conductor.errors
ErrorLists == {"undefined", "emptyArray", "errs1"}

\* output || {}
OutputOrDefault(output) == IF output \in Falsy THEN "emptyObject" ELSE output

\* execution.conductor?.errors || []
ErrorsOrDefault(errors) == IF errors = "undefined" THEN "emptyArray" ELSE errors

\* the object returned at lines 711-717
NoResult == [output |-> "-", errors |-> "-", status |-> <<>>]

MakeResultMutant(execution) ==
  [output |-> execution.output,
   errors |-> ErrorsOrDefault(execution.errors),
   status |-> execution.status]

MakeResult(execution) ==
  [output |-> OutputOrDefault(execution.output),
   errors |-> ErrorsOrDefault(execution.errors),
   status |-> execution.status]

(***************************************************************************)
(* The fingerprint cache in sessionStorage.                                *)
(***************************************************************************)
\* workflow ids and input payloads the caller uses
J   == <<"J">>
J_2 == <<"J", "_", "2">>
WorkflowIds == {J, J_2}

\* an input object is the sequence of its entries <<name, value>>, in insertion order
EmptyPayload == <<>>
PayloadA1    == << <<"a", "1">> >>
Payloads == {EmptyPayload, PayloadA1}

RECURSIVE StringifyEntries(_)
StringifyEntries(entries) ==
  IF entries = <<>> THEN <<>>
  ELSE <<"\"", entries[1][1], "\"", ":", entries[1][2]>>
         \o (IF Len(entries) > 1 THEN <<",">> ELSE <<>>)
         \o StringifyEntries(Tail(entries))

\* JSON.stringify(inputData)
JSONStringify(inputData) == <<"{">> \o StringifyEntries(inputData) \o <<"}">>

workflow_cache_ ==
  <<"w", "o", "r", "k", "f", "l", "o", "w", "_", "c", "a", "c", "h", "e", "_">>

\* `workflow_cache_${workflowId}_${JSON.stringify(inputData)}` (lines 125, 594)
CacheKey(workflowId, inputData) ==
  workflow_cache_ \o workflowId \o <<"_">> \o JSONStringify(inputData)

Keys == {CacheKey(w, p) : w \in WorkflowIds, p \in Payloads}

\* JSON text of a conductor.output / conductor.errors value
ValueText(v) ==
  CASE v = "emptyObject" -> "{}"
    [] v = "emptyArray"  -> "[]"
    [] v = "emptyString" -> "\"\""
    [] v = "null"        -> "null"
    [] v = "obj1"        -> "{\"r\":1}"
    [] v = "obj2"        -> "{\"r\":2}"
    [] v = "errs1"       -> "[\"e\"]"

TextValue(t) ==
  CASE t = "{}"          -> "emptyObject"
    [] t = "[]"          -> "emptyArray"
    [] t = "\"\""        -> "emptyString"
    [] t = "null"        -> "null"
    [] t = "{\"r\":1}"   -> "obj1"
    [] t = "{\"r\":2}"   -> "obj2"
    [] t = "[\"e\"]"     -> "errs1"

\* JSON.stringify(executionResult) (line 170)
StringifyResult(r) ==
  <<"{\"conductor\":{\"output\":", ValueText(r.output),
    ",\"errors\":", ValueText(r.errors),
    ",\"status\":\"">> \o r.status \o <<"\"}}">>

\* a stored string that is not JSON, and the empty string
Garbage == <<"<", "!", ">">>
EmptyText == <<>>

IsResultText(text) ==
  /\ Len(text) >= 6
  /\ text[1] = "{\"conductor\":{\"output\":"

\* JSON.parse(cachedResult) (line 142) on a text written at line 170
JSONParse(text) ==
  [output |-> TextValue(text[2]),
   errors |-> TextValue(text[4]),
   status |-> SubSeq(text, 6, Len(text) - 1)]

\* sessionStorage.getItem(key): the stored string, or null (here: EmptyText with found = FALSE)
HasItem(store, key) == key \in DOMAIN store

\* sessionStorage.setItem(key, value)
SetItem(store, key, value) ==
  [k \in (DOMAIN store) \cup {key} |-> IF k = key THEN value ELSE store[k]]

\* sessionStorage.removeItem(key) for every key of a set
RemoveItems(store, keys) == [k \in (DOMAIN store) \ keys |-> store[k]]

EmptyStore == [k \in {} |-> EmptyText]

(***************************************************************************)
(* The remote endpoint: what one POST to /graphql comes back with.         *)
(***************************************************************************)
\* data.workflowExecution of a status response
NoExecution ==
  [found |-> FALSE, status |-> <<>>, output |-> "-", errors |-> "-",
   numSuccessfulTasks |-> 0]

Execution(status, output, errors) ==
  [found |-> TRUE, status |-> status, output |-> output, errors |-> errors,
   numSuccessfulTasks |-> 0]

\* the body's data member: missing, a testWorkflow result, a
\* workflowExecution, or a workflows list
NoData ==
  [present |-> FALSE, testResult |-> "-", execution |-> NoExecution,
   workflows |-> "-"]
StartData(testResult) == [NoData EXCEPT !.present = TRUE, !.testResult = testResult]
StatusData(execution) == [NoData EXCEPT !.present = TRUE, !.execution = execution]
ListData(workflows) == [NoData EXCEPT !.present = TRUE, !.workflows = workflows]

\* the body's errors member: missing, null, [], a list whose first error has
\* no message, a list whose first error has the message "m1"
ErrorsMembers == {"undefined", "null", "emptyArray", "unnamed", "m1"}

\* data.errors is truthy (lines 55 and 59)
HasErrors(errors) == errors \notin {"undefined", "null"}

\* data.errors?.[0]?.message || 'Unknown error' (lines 57 and 61)
FirstMessage(errors) == IF errors = "m1" THEN "m1" ELSE "Unknown error"

\* what one fetch comes to: the fetch is rejected (net "reject"), the body
\* of the response is not JSON and response.json() is rejected (net "text"),
\* or the body is a JSON object (net "http")
Rejected ==
  [net |-> "reject", ok |-> FALSE, hasErrors |-> FALSE, errors |-> "undefined",
   data |-> NoData]

NotJSON(ok) == [Rejected EXCEPT !.net = "text", !.ok = ok]

Body(ok, errors, data) ==
  [net |-> "http", ok |-> ok, hasErrors |-> HasErrors(errors), errors |-> errors,
   data |-> data]

Http(ok, hasErrors, data) == Body(ok, IF hasErrors THEN "m1" ELSE "undefined", data)

\* graphqlQuery (lines 47-68): what it throws ("" when it returns), with the
\* reason its message gives, and what it returns
graphqlQuery(response) ==
  IF response.net = "reject"
  THEN [threw |-> "NetworkError", reason |-> "Failed to fetch", data |-> NoData]
  ELSE IF response.net = "text"
  THEN [threw |-> "SyntaxError", reason |-> "Unexpected token", data |-> NoData]
  ELSE IF ~response.ok
  THEN [threw |-> "GraphQL HTTP", reason |-> FirstMessage(response.errors),
        data |-> NoData]
  ELSE IF response.hasErrors
  THEN [threw |-> "GraphQL Error", reason |-> FirstMessage(response.errors),
        data |-> NoData]
  ELSE [threw |-> "", reason |-> "", data |-> response.data]

(***************************************************************************)
(* One executeWorkflow call (a task of the caller).                        *)
(***************************************************************************)
\* const maxAttempts (line 674), const maxEmptyOutputRetries (line 676)
maxAttempts == 150
maxEmptyOutputRetries == 10

\* the grace period of a not yet queryable execution (line 685)
notFoundGrace == 5

\* the waits between two status queries, in ms (lines 687, 706, 720, 725)
notFoundWait == 500
emptyOutputWait == 2500
pollWait == 2000
errorWait == 1000

\* options.skip_cache and options.useCache of a call; "unset" is an absent member
NoOptions == [skip_cache |-> "unset", useCache |-> "unset"]
Options == [skip_cache : {"unset", "true"}, useCache : {"unset", "true", "false"}]

\* let useCache (lines 128-135)
ResolveUseCache(options, config_skip_cache) ==
  IF options.skip_cache = "true" THEN FALSE
  ELSE IF options.useCache = "false" THEN FALSE
  ELSE IF config_skip_cache = TRUE THEN FALSE
  ELSE TRUE

\* the call of the progress callback in one iteration of the poll loop: none,
\* or onProgress(status, tasks)
NoProgress == [called |-> FALSE, status |-> <<>>, tasks |-> 0]

NoLast == [kind |-> "none", wait |-> 0, output |-> "-", progress |-> NoProgress]

\* a task that has no call running.  pc: "off" (no such task), "idle",
\* "starting" (awaiting the start mutation), "polling" (in the loop of
\* waitForWorkflowCompletion, before a status query), "done" (the promise of
\* executeWorkflow is fulfilled with result), "failed" (rejected with error).
\* remote names the behaviour of the remote execution the call started.
\* polled is the value waitForWorkflowCompletion returned.  The remaining
\* members record what the call has done: mutations, queries and setItems
\* count its start mutations, status queries and sessionStorage.setItem
\* calls, stored counts the setItem calls that did not throw,
\* hit is TRUE when the result came from the cache, last is the kind
\* of the last status response, the wait taken after it and, when
\* waitForWorkflowCompletion returned on it, its output; hist classifies
\* the status responses so far ("runs": only non-terminal ones; "empties":
\* non-terminal ones, then only terminal ones whose output is absent or {};
\* "grace": as "empties", then a terminal one with output, which was
\* returned; "other") and firstTerminalAttempts is the value of attempts at
\* the first terminal response while hist is "empties" or "grace".
\* onProgress is the callback the call hands to the poller: "none", or
\* what it does when it is called ("returns", "throws"); last.progress is
\* its call in the last iteration.  invalidated is TRUE when a
\* clearWorkflowCache call that touches cacheKey has run since the call
\* began.
IdleCall ==
  [pc |-> "idle", options |-> NoOptions, cacheKey |-> <<>>, useCache |-> FALSE,
   onProgress |-> "none", invalidated |-> FALSE,
   remote |-> "", attempts |-> 0, emptyOutputRetries |-> 0,
   polled |-> NoResult, result |-> NoResult, error |-> "",
   mutations |-> 0, queries |-> 0, setItems |-> 0, stored |-> 0, hit |-> FALSE,
   last |-> NoLast, hist |-> "runs", firstTerminalAttempts |-> 0]

OffCall == [IdleCall EXCEPT !.pc = "off"]

Fail(call, error) == [call EXCEPT !.pc = "failed", !.error = error]

\* executeWorkflow, lines 123-158: the cache key, the cache-use flag, the
\* cache read and the start mutation (the call suspends at line 158)
ExecuteWorkflowBeginMutant(workflowId, inputData, options, config_skip_cache, store) ==
  [IdleCall EXCEPT !.options = options,
                   !.cacheKey = CacheKey(workflowId, inputData),
                   !.useCache = ResolveUseCache(options, config_skip_cache),
                   !.pc = "starting", !.mutations = 1]

ExecuteWorkflowBegin(workflowId, inputData, options, config_skip_cache, store) ==
  LET cacheKey == CacheKey(workflowId, inputData)
      useCache == ResolveUseCache(options, config_skip_cache)
      call == [IdleCall EXCEPT !.options = options, !.cacheKey = cacheKey,
                               !.useCache = useCache]
  IN  IF useCache /\ HasItem(store, cacheKey) /\ store[cacheKey] # EmptyText
      THEN IF IsResultText(store[cacheKey])
           THEN [call EXCEPT !.pc = "done", !.hit = TRUE,
                             !.result = JSONParse(store[cacheKey])]
           ELSE Fail(call, "SyntaxError")
      ELSE [call EXCEPT !.pc = "starting", !.mutations = 1]

\* executeWorkflow, lines 158-167: the start mutation has come back
StartReturned(call, response, behaviour) ==
  LET r == graphqlQuery(response)
      started == [call EXCEPT !.options = NoOptions]
  IN  IF r.threw # "" THEN Fail(started, r.threw)
      ELSE IF ~r.data.present THEN Fail(started, "TypeError")
      ELSE IF r.data.testResult \notin {"executionId", "nested executionId"}
      THEN Fail(started, "Failed to start workflow execution")
      ELSE [started EXCEPT !.pc = "polling", !.remote = behaviour]

(***************************************************************************)
(* waitForWorkflowCompletion (lines 659-729): one iteration of the loop,   *)
(* from the status query to the end of the wait that follows it.           *)
(***************************************************************************)
AbsentOrEmptyObject == {"undefined", "null", "emptyObject"}

\* the classification of the status responses after one more response
Hist(call, event, output) ==
  CASE event = "running" ->
         [hist |-> IF call.hist = "runs" THEN "runs" ELSE "other", first |-> 0]
    [] event = "empty" ->
         IF output \in AbsentOrEmptyObject /\ call.hist \in {"runs", "empties"}
         THEN [hist |-> "empties",
               first |-> IF call.hist = "runs" THEN call.attempts
                         ELSE call.firstTerminalAttempts]
         ELSE [hist |-> "other", first |-> 0]
    [] event = "full" ->
         IF call.hist = "empties"
         THEN [hist |-> "grace", first |-> call.firstTerminalAttempts]
         ELSE [hist |-> "other", first |-> 0]
    [] OTHER -> [hist |-> "other", first |-> 0]

WithHist(call, kind, wait, h) ==
  [call EXCEPT !.last = [kind |-> kind, wait |-> wait, output |-> "-",
                         progress |-> call.last.progress],
               !.hist = h.hist,
               !.firstTerminalAttempts = h.first]

Noted(call, kind, wait, event, output) ==
  WithHist(call, kind, wait, Hist(call, event, output))

\* catch (error), lines 721-726
CatchMutant(call, error, kind) ==
  LET attempts == call.attempts + 1
  IN  IF attempts >= maxAttempts
      THEN Fail([Noted(call, kind, 0, "error", "-") EXCEPT !.attempts = attempts],
                "Workflow execution timeout after 5 minutes")
      ELSE [Noted(call, kind, errorWait, "error", "-") EXCEPT
              !.attempts = attempts, !.emptyOutputRetries = 0]

Catch(call, error, kind) ==
  LET attempts == call.attempts + 1
  IN  IF attempts >= maxAttempts
      THEN Fail([Noted(call, kind, 0, "error", "-") EXCEPT !.attempts = attempts],
                error)
      ELSE [Noted(call, kind, errorWait, "error", "-") EXCEPT !.attempts = attempts]

\* if (!execution), lines 682-691; the throw of line 690 is inside the try
\* block of line 678, so the catch of line 721 handles it
ExecutionAbsentMutant(call) ==
  IF call.attempts < notFoundGrace - 1
  THEN [Noted(call, "absent", notFoundWait, "absent", "-") EXCEPT
          !.attempts = call.attempts + 1]
  ELSE Catch(call, "Execution not found after retries", "absent")

ExecutionAbsent(call) ==
  IF call.attempts < notFoundGrace
  THEN [Noted(call, "absent", notFoundWait, "absent", "-") EXCEPT
          !.attempts = call.attempts + 1]
  ELSE Catch(call, "Execution not found after retries", "absent")

\* the terminal branch, lines 698-718; pc "returned" is the return of line 711
TerminalMutant(call, execution) ==
  IF IsEmptyOutput(execution.output)
     /\ call.emptyOutputRetries < maxEmptyOutputRetries
  THEN [Noted(call, "terminal", emptyOutputWait, "empty", execution.output) EXCEPT
          !.emptyOutputRetries = call.emptyOutputRetries + 1,
          !.attempts = call.attempts - 1]
  ELSE [Noted(call, "terminal", 0,
              IF IsEmptyOutput(execution.output) THEN "empty" ELSE "full",
              execution.output) EXCEPT
          !.pc = "returned", !.polled = MakeResult(execution),
          !.last.output = execution.output]

TerminalOneMoreRetry(call, execution) ==
  IF IsEmptyOutput(execution.output)
     /\ call.emptyOutputRetries <= maxEmptyOutputRetries
  THEN [Noted(call, "terminal", emptyOutputWait, "empty", execution.output) EXCEPT
          !.emptyOutputRetries = call.emptyOutputRetries + 1,
          !.attempts = Max(0, call.attempts - 1)]
  ELSE [Noted(call, "terminal", 0,
              IF IsEmptyOutput(execution.output) THEN "empty" ELSE "full",
              execution.output) EXCEPT
          !.pc = "returned", !.polled = MakeResult(execution),
          !.last.output = execution.output]

Terminal(call, execution) ==
  IF IsEmptyOutput(execution.output)
     /\ call.emptyOutputRetries < maxEmptyOutputRetries
  THEN [Noted(call, "terminal", emptyOutputWait, "empty", execution.output) EXCEPT
          !.emptyOutputRetries = call.emptyOutputRetries + 1,
          !.attempts = Max(0, call.attempts - 1)]
  ELSE [Noted(call, "terminal", 0,
              IF IsEmptyOutput(execution.output) THEN "empty" ELSE "full",
              execution.output) EXCEPT
          !.pc = "returned", !.polled = MakeResult(execution),
          !.last.output = execution.output]

\* lines 719-720, then the loop condition of line 677 and the throw of line 728
StillRunningMutant(call) ==
  LET attempts == call.attempts + 1
      waited == [Noted(call, "running", pollWait, "running", "-") EXCEPT
                   !.attempts = attempts]
  IN  IF attempts <= maxAttempts THEN waited
      ELSE Fail(waited, "Workflow execution timeout after 5 minutes")

StillRunning(call) ==
  LET attempts == call.attempts + 1
      waited == [Noted(call, "running", pollWait, "running", "-") EXCEPT
                   !.attempts = attempts]
  IN  IF attempts < maxAttempts THEN waited
      ELSE Fail(waited, "Workflow execution timeout after 5 minutes")

\* if (onProgress), lines 692-696: the call of the callback; what it throws
\* is caught and dropped
OnProgress(call, execution) ==
  IF call.onProgress = "none" THEN call
  ELSE [call EXCEPT !.last.progress =
          [called |-> TRUE, status |-> execution.status,
           tasks |-> execution.numSuccessfulTasks]]

\* lines 692-720, once the response has resolved the execution
Resolved(progressed, execution) ==
  IF IsTerminal(execution.status) THEN Terminal(progressed, execution)
  ELSE StillRunning(progressed)

\* the body of the while loop, lines 678-726, on one response to the status query
TryBlockMutant(queried, r) ==
  IF r.threw # "" THEN Catch(queried, r.threw, "error")
  ELSE IF ~r.data.present THEN Catch(queried, "TypeError", "error")
  ELSE IF ~r.data.execution.found THEN ExecutionAbsent(queried)
  ELSE IF queried.onProgress = "throws"
  THEN Catch(OnProgress(queried, r.data.execution), "callback error", "error")
  ELSE Resolved(OnProgress(queried, r.data.execution), r.data.execution)

TryBlock(queried, r) ==
  IF r.threw # "" THEN Catch(queried, r.threw, "error")
  ELSE IF ~r.data.present THEN Catch(queried, "TypeError", "error")
  ELSE IF ~r.data.execution.found THEN ExecutionAbsent(queried)
  ELSE Resolved(OnProgress(queried, r.data.execution), r.data.execution)

PollIteration(call, response) ==
  TryBlock([call EXCEPT !.queries = call.queries + 1,
                        !.last.progress = NoProgress],
           graphqlQuery(response))

\* executeWorkflow, lines 167-172, once waitForWorkflowCompletion has
\* returned: the cache write (setItem throws when the quota is exceeded,
\* storeOk = FALSE) and the return
ExecuteWorkflowEndMutant(call, store, storeOk) ==
  IF ~storeOk
  THEN [call |-> [call EXCEPT !.pc = "done", !.result = call.polled],
        store |-> store]
  ELSE [call |-> [call EXCEPT !.pc = "done", !.result = call.polled,
                              !.setItems = call.setItems + 1,
                              !.stored = call.stored + 1],
        store |-> SetItem(store, call.cacheKey, StringifyResult(call.polled))]

ExecuteWorkflowEndFirstWins(call, store, storeOk) ==
  IF ~call.useCache \/ HasItem(store, call.cacheKey)
  THEN [call |-> [call EXCEPT !.pc = "done", !.result = call.polled],
        store |-> store]
  ELSE IF ~storeOk
  THEN [call |-> Fail([call EXCEPT !.setItems = call.setItems + 1],
                      "QuotaExceededError"),
        store |-> store]
  ELSE [call |-> [call EXCEPT !.pc = "done", !.result = call.polled,
                              !.setItems = call.setItems + 1,
                              !.stored = call.stored + 1],
        store |-> SetItem(store, call.cacheKey, StringifyResult(call.polled))]

ExecuteWorkflowEnd(call, store, storeOk) ==
  IF ~call.useCache
  THEN [call |-> [call EXCEPT !.pc = "done", !.result = call.polled],
        store |-> store]
  ELSE IF ~storeOk
  THEN [call |-> Fail([call EXCEPT !.setItems = call.setItems + 1],
                      "QuotaExceededError"),
        store |-> store]
  ELSE [call |-> [call EXCEPT !.pc = "done", !.result = call.polled,
                              !.setItems = call.setItems + 1,
                              !.stored = call.stored + 1],
        store |-> SetItem(store, call.cacheKey, StringifyResult(call.polled))]

(***************************************************************************)
(* clearWorkflowCache (lines 582-606) and setSkipCache (lines 646-649).    *)
(***************************************************************************)
\* an argument left out (the default null): a workflow id, an input object
NullArg == <<"null">>
NullInput == << <<"null">> >>

\* the keys clearWorkflowCache(workflowId, inputData) removes
ClearedKeysMutant(store, workflowId, inputData) ==
  IF workflowId = NullArg \/ workflowId = <<>>
  THEN {k \in DOMAIN store : startsWith(k, workflow_cache_)}
  ELSE {k \in DOMAIN store : startsWith(k, workflow_cache_ \o workflowId \o <<"_">>)}

ClearedKeys(store, workflowId, inputData) ==
  IF workflowId = NullArg \/ workflowId = <<>>
  THEN {k \in DOMAIN store : startsWith(k, workflow_cache_)}
  ELSE IF inputData # NullInput
  THEN {CacheKey(workflowId, inputData)}
  ELSE {k \in DOMAIN store : startsWith(k, workflow_cache_ \o workflowId \o <<"_">>)}

\* clearWorkflowCache(workflowId, inputData) removes key when it is stored
Touches(key, workflowId, inputData) ==
  key \in ClearedKeys([k \in {key} |-> EmptyText], workflowId, inputData)

(***************************************************************************)
(* The remote endpoint's answers.                                          *)
(***************************************************************************)
StatusResponse(status, output, errors) ==
  Http(TRUE, FALSE, StatusData(Execution(status, output, errors)))

AbsentResponse == Http(TRUE, FALSE, StatusData(NoExecution))
HttpError      == Http(FALSE, TRUE, NoData)
GraphQLError   == Http(TRUE, TRUE, NoData)
NoDataResponse == Http(TRUE, FALSE, NoData)

QueryFailures == {Rejected, HttpError, GraphQLError, NoDataResponse}

StartResponses ==
  QueryFailures \cup
  {Http(TRUE, FALSE, StartData(t)) :
     t \in {"none", "no executionId", "executionId", "nested executionId"}}

\* every answer to a status query
AnyAnswers ==
  QueryFailures \cup {AbsentResponse}
  \cup {StatusResponse(s, "undefined", "undefined") : s \in {RUNNING, NoStatus}}
  \cup {StatusResponse(COMPLETED, o, "undefined") : o \in Outputs}
  \cup {StatusResponse(failed, o, "errs1") : o \in {"emptyObject", "obj2"}}

RunningAnswers  == {StatusResponse(RUNNING, "undefined", "undefined")}
PromptAnswers   == {StatusResponse(COMPLETED, "obj1", "emptyArray")}
LateOutputAnswers ==
  {StatusResponse(completed, "emptyObject", "errs1"),
   StatusResponse(completed, "obj2", "errs1")}

\* the statuses a status response may carry; an execution that reports any
\* of them, with its output, and one that has ended and whose output stays
\* empty
Statuses ==
  {COMPLETED, Completed, completed, SUCCESS, SUCCEEDED, succeeded, FAILED,
   failed, ERROR, RUNNING, pending, NoStatus, NumberStatus}

\* the statuses of an execution that has ended, in the spellings above
EndedStatuses ==
  {COMPLETED, Completed, completed, SUCCESS, SUCCEEDED, succeeded, FAILED,
   failed, ERROR}

\* an execution that reports how many of its tasks have succeeded
ProgressAnswers ==
  {AbsentResponse,
   Http(TRUE, FALSE,
        StatusData([Execution(RUNNING, "undefined", "undefined") EXCEPT
                      !.numSuccessfulTasks = 3])),
   StatusResponse(COMPLETED, "emptyObject", "undefined"),
   Http(TRUE, FALSE,
        StatusData([Execution(completed, "obj1", "emptyArray") EXCEPT
                      !.numSuccessfulTasks = 4]))}

SpellingAnswers == {StatusResponse(s, "obj1", "undefined") : s \in Statuses}
EmptySpellingAnswers ==
  {StatusResponse(s, "emptyObject", "undefined") : s \in EndedStatuses}

\* the behaviours of one remote execution, and the answers to a status
\* query each may give
Answers(behaviour) ==
  CASE behaviour = "any"         -> AnyAnswers
    [] behaviour = "running"     -> RunningAnswers
    [] behaviour = "unreachable" -> {HttpError}
    [] behaviour = "unknown"     -> {AbsentResponse}
    [] behaviour = "prompt"      -> PromptAnswers
    [] behaviour = "late output" -> LateOutputAnswers
    [] behaviour = "spellings"   -> SpellingAnswers
    [] behaviour = "progress"    -> ProgressAnswers
    [] behaviour = "empty spellings" -> EmptySpellingAnswers
    [] OTHER                     -> {}

RemoteBehaviours ==
  {"running", "unreachable", "unknown", "prompt", "late output"}

(***************************************************************************)
(* Forms: the field configurations, the DOM and submitForm.                *)
(***************************************************************************)
\* a form value: a string (text: its characters), an array (text: its
\* elements), a number or a boolean (text: its literal), null or undefined
Undefined == [kind |-> "undefined", text |-> <<>>]
Null      == [kind |-> "null", text |-> <<>>]
Str(text) == [kind |-> "string", text |-> text]
Arr(text) == [kind |-> "array", text |-> text]
Num(text) == [kind |-> "number", text |-> <<text>>]
True      == [kind |-> "boolean", text |-> <<"true">>]
False     == [kind |-> "boolean", text |-> <<"false">>]

\* formData is the sequence of its entries <<name, value>>, in insertion order
\* formData[name]
Lookup(data, name) ==
  IF \E i \in DOMAIN data : data[i][1] = name
  THEN data[CHOOSE i \in DOMAIN data : data[i][1] = name][2]
  ELSE Undefined

\* if (value): the values that are truthy
Truthy(v) ==
  \/ v.kind = "string" /\ v.text # <<>>
  \/ v.kind = "array"
  \/ v.kind = "number" /\ v.text # <<"0">>
  \/ v = True

\* value === undefined || value === null || value === '' ||
\* (Array.isArray(value) && value.length === 0)   (line 473)
IsMissing(v) ==
  \/ v.kind \in {"undefined", "null"}
  \/ v.kind \in {"string", "array"} /\ v.text = <<>>

\* value.length < n and value.length > n; the length of a value that is
\* neither a string nor an array is undefined, and both comparisons are false
ShorterThan(v, n) == v.kind \in {"string", "array"} /\ Len(v.text) < n
LongerThan(v, n)  == v.kind \in {"string", "array"} /\ Len(v.text) > n

RECURSIVE Joined(_)
Joined(elements) ==
  IF elements = <<>> THEN <<>>
  ELSE <<elements[1]>> \o (IF Len(elements) > 1 THEN <<",">> ELSE <<>>)
         \o Joined(Tail(elements))

\* String(value), the string RegExp.prototype.test matches against
ToText(v) ==
  CASE v.kind = "string" -> v.text
    [] v.kind = "array"  -> Joined(v.text)
    [] OTHER             -> v.text

\* /^[^\s@]+@[^\s@]+\.[^\s@]+$/.test(text)   (line 485)
emailRegexTest(text) ==
  /\ \A i \in DOMAIN text : text[i] \notin {" ", "\t", "\n"}
  /\ \E i \in DOMAIN text :
       /\ text[i] = "@"
       /\ \A j \in DOMAIN text : text[j] = "@" => j = i
       /\ i > 1
       /\ \E j \in DOMAIN text : j > i + 1 /\ j < Len(text) /\ text[j] = "."

\* a condition string `<field> == '<equals>'`; NoCondition is a condition
\* that is not set (undefined or '')
NoCondition == [field |-> "", equals |-> <<>>]
Condition(field, equals) == [field |-> field, equals |-> equals]

\* a field configuration; min_length and max_length 0: not set
FieldConfig(name, displayname, type, required, min, max, hidden, c1, a1, c2, a2) ==
  [field_name |-> name, field_displayname |-> displayname, type |-> type,
   required |-> required, min_length |-> min, max_length |-> max,
   hidden |-> hidden,
   condition_1 |-> c1, condition_1_action |-> a1,
   condition_2 |-> c2, condition_2_action |-> a2]

\* an object without members (errors = {}), a document without elements
NoMembers == [n \in {} |-> <<>>]

\* the DOM: the value of the input element of each field name that has one,
\* the style.display of the display region ([data-field-name]) of each field
\* name that has one, and whether evaluateConditionalVisibility has run
NoDocument == [inputs |-> NoMembers, display |-> NoMembers, evaluated |-> FALSE]

\* the messages of lines 477, 490, 498, 505
IsRequired(config) == <<config.field_displayname, " is required">>
MustBeEmail(config) == <<config.field_displayname, " must be a valid email address">>
TooShort(config) ==
  <<config.field_displayname, " must be at least ",
    ToString(config.min_length), " characters">>
TooLong(config) ==
  <<config.field_displayname, " must not exceed ",
    ToString(config.max_length), " characters">>

\* fieldElement && fieldElement.style.display === 'none'   (lines 467-468)
IsHidden(doc, name) ==
  /\ name \in DOMAIN doc.display
  /\ doc.display[name] = "none"

\* errors[name].push(message) for every message, creating errors[name] first
Push(errors, name, messages) ==
  [n \in (DOMAIN errors) \cup {name} |->
     IF n = name
     THEN (IF name \in DOMAIN errors THEN errors[name] ELSE <<>>) \o messages
     ELSE errors[n]]

\* the errors of one field configuration, lines 464-509
FieldErrors(config, value) ==
  (IF config.required /\ IsMissing(value) THEN <<IsRequired(config)>> ELSE <<>>)
  \o (IF Truthy(value) /\ config.type = "email" /\ ~emailRegexTest(ToText(value))
      THEN <<MustBeEmail(config)>> ELSE <<>>)
  \o (IF Truthy(value) /\ config.min_length # 0 /\ ShorterThan(value, config.min_length)
      THEN <<TooShort(config)>> ELSE <<>>)
  \o (IF Truthy(value) /\ config.max_length # 0 /\ LongerThan(value, config.max_length)
      THEN <<TooLong(config)>> ELSE <<>>)

\* the callback of fieldConfigs.forEach, lines 463-510
ValidateFieldMutant(config, data, doc, validation) ==
  LET found == FieldErrors(config, Lookup(data, config.field_name))
  IN  IF found = <<>> THEN validation
      ELSE [isValid |-> FALSE,
            errors |-> Push(validation.errors, config.field_name, found)]

ValidateField(config, data, doc, validation) ==
  IF config.required /\ IsHidden(doc, config.field_name) THEN validation
  ELSE LET found == FieldErrors(config, Lookup(data, config.field_name))
       IN  IF found = <<>> THEN validation
           ELSE [isValid |-> FALSE,
                 errors |-> Push(validation.errors, config.field_name, found)]

NoValidation == [isValid |-> TRUE, errors |-> NoMembers]

RECURSIVE ValidateFields(_, _, _, _)
ValidateFields(configs, data, doc, validation) ==
  IF configs = <<>> THEN validation
  ELSE ValidateFields(Tail(configs), data, doc,
                      ValidateField(configs[1], data, doc, validation))

\* validateForm(formData, fieldConfigs), lines 460-512
validateForm(data, configs, doc) == ValidateFields(configs, data, doc, NoValidation)

\* an input element, and the value lines 423-431 take from it
Input(type, value, checked) == [type |-> type, value |-> value, checked |-> checked]

InputValue(input) ==
  CASE input.type = "checkbox" -> IF input.checked THEN True ELSE False
    [] input.type = "radio"    -> IF input.checked THEN Str(input.value) ELSE Null
    [] OTHER                   -> Str(input.value)

\* the formData of lines 420-433: the values of the input elements of the
\* configured fields
CollectFormData(configs, doc) ==
  [n \in {configs[i].field_name : i \in DOMAIN configs} \cap DOMAIN doc.inputs |->
     InputValue(doc.inputs[n])]

\* evaluateCondition (lines 392-413) on `<field> == '<equals>'`: the field
\* name is replaced by the quoted string value, or by the literal of a value
\* that is not a string; a name that is not a key of formData stays in the
\* expression, eval throws a ReferenceError and the catch returns false
evaluateCondition(condition, data) ==
  IF condition = NoCondition THEN TRUE
  ELSE IF condition.field \notin DOMAIN data THEN FALSE
  ELSE /\ data[condition.field].kind = "string"
       /\ data[condition.field].text = condition.equals

\* let shouldShow, lines 438-449
ShouldShowMutant(config, data) ==
  LET first == IF config.condition_1 # NoCondition /\ config.condition_1_action = "show"
               THEN ~config.hidden /\ evaluateCondition(config.condition_1, data)
               ELSE ~config.hidden
  IN  IF config.condition_2 # NoCondition /\ config.condition_2_action = "show"
      THEN first /\ evaluateCondition(config.condition_2, data)
      ELSE first

ShouldShow(config, data) ==
  LET first == IF config.condition_1 # NoCondition /\ config.condition_1_action = "show"
               THEN evaluateCondition(config.condition_1, data)
               ELSE ~config.hidden
  IN  IF config.condition_2 # NoCondition /\ config.condition_2_action = "show"
      THEN first /\ evaluateCondition(config.condition_2, data)
      ELSE first

\* allFieldConfigs.forEach, lines 435-451: a field without a display region
\* is skipped
RECURSIVE ApplyVisibility(_, _, _)
ApplyVisibility(configs, data, display) ==
  IF configs = <<>> THEN display
  ELSE ApplyVisibility(Tail(configs), data,
         IF configs[1].field_name \in DOMAIN display
         THEN [display EXCEPT ![configs[1].field_name] =
                 IF ShouldShow(configs[1], data) THEN "" ELSE "none"]
         ELSE display)

\* evaluateConditionalVisibility(allFieldConfigs), lines 418-452
evaluateConditionalVisibility(configs, doc) ==
  [doc EXCEPT !.display = ApplyVisibility(configs, CollectFormData(configs, doc),
                                          doc.display),
              !.evaluated = TRUE]

\* the input object executeWorkflow gets from submitForm: the entries of
\* formData with the JSON text of each value (line 534)
RECURSIVE Concat(_)
Concat(text) == IF text = <<>> THEN "" ELSE text[1] \o Concat(Tail(text))

ValueJSON(v) ==
  CASE v.kind = "string" -> "\"" \o Concat(v.text) \o "\""
    [] v.kind = "array"  ->
         "[" \o Concat(Joined([i \in DOMAIN v.text |-> "\"" \o v.text[i] \o "\""])) \o "]"
    [] v.kind = "null"   -> "null"
    [] OTHER             -> v.text[1]

FormPayload(data) == [i \in DOMAIN data |-> <<data[i][1], ValueJSON(data[i][2])>>]

\* the hooks of options: which of onSuccess and onError the caller supplied
Hooks == [onSuccess : BOOLEAN, onError : BOOLEAN]

\* an argument of a hook call: the errors mapping of a failed validation, an
\* Error (its message), or an execution result
ErrorsArg(errors) == [kind |-> "errors", errors |-> errors, message |-> "", result |-> NoResult]
ErrorArg(message) == [kind |-> "error", errors |-> NoMembers, message |-> message, result |-> NoResult]
ResultArg(result) == [kind |-> "result", errors |-> NoMembers, message |-> "", result |-> result]

ValidationFailed == "Form validation failed"

\* no submitForm call has been made.  pc: "idle", "validated" (validateForm
\* was called on its own and returned validation), "executing" (submitForm
\* awaits executeWorkflow, the call of task), "resolved" (with result),
\* "rejected" (with error).  onSuccessCalls and onErrorCalls are the
\* arguments of the calls of the two hooks so far.
IdleSubmit ==
  [pc |-> "idle", task |-> 0, hooks |-> [onSuccess |-> FALSE, onError |-> FALSE],
   validation |-> NoValidation, onSuccessCalls |-> <<>>, onErrorCalls |-> <<>>,
   result |-> NoResult, error |-> ""]

\* submitForm, lines 535-539 and 540-546: executeWorkflow has settled
Settle(sub, call) ==
  IF call.pc = "done"
  THEN [sub EXCEPT !.pc = "resolved", !.result = call.result,
                   !.onSuccessCalls = IF sub.hooks.onSuccess
                                      THEN Append(@, ResultArg(call.result)) ELSE @]
  ELSE IF call.pc = "failed"
  THEN [sub EXCEPT !.pc = "rejected", !.error = call.error,
                   !.onErrorCalls = IF sub.hooks.onError
                                    THEN Append(@, ErrorArg(call.error)) ELSE @]
  ELSE sub

\* the submitForm call that awaits the executeWorkflow call of task c resumes
\* as soon as that call has settled
SubmitFormResumes(sub, c, call) ==
  IF sub.pc = "executing" /\ sub.task = c THEN Settle(sub, call) ELSE sub

\* submitForm, lines 523-534: validation and, if the form is valid, the
\* synchronous part of executeWorkflow (begun is that call: suspended at its
\* start mutation, or settled by the cache read)
SubmitFormBegin(c, hooks, validation, begun) ==
  LET sub == [IdleSubmit EXCEPT !.task = c, !.hooks = hooks, !.validation = validation]
  IN  IF ~validation.isValid
      THEN [sub EXCEPT
              !.pc = "rejected", !.error = ValidationFailed,
              !.onErrorCalls = IF hooks.onError
                               THEN <<ErrorsArg(validation.errors),
                                      ErrorArg(ValidationFailed)>>
                               ELSE <<>>]
      ELSE Settle([sub EXCEPT !.pc = "executing"], begun)

\* a page without a form
NoForm ==
  /\ fieldConfigs = <<>>
  /\ formData = NoMembers
  /\ document = NoDocument
  /\ submit = IdleSubmit

(***************************************************************************)
(* The workflow lists: getAllWorkflows (lines 77-93), getAllWorkflowsOG    *)
(* (lines 99-115), the single slot workflowsCache (line 37) they share,    *)
(* clearWorkflowsCache and setOrgId.                                       *)
(***************************************************************************)
\* the value of workflowsCache while it holds no list (null)
NullList == [query |-> "null", workflows |-> "-", superseded |-> FALSE]

\* the query each of the two functions sends (lines 81-88 and 103-110)
QueryOf(fn) ==
  IF fn = "getAllWorkflowsOG" THEN "workflows(isOptionsGenerator: true)"
  ELSE "workflows"

\* a task that has no list call running.  pc: "idle", "fetching" (awaiting
\* graphqlQuery), "done" (fulfilled with result), "failed" (rejected with
\* error).  hit is TRUE when the result came from workflowsCache; superseded
\* is TRUE when setOrgId has run since the call sent its query, and a list
\* carries the superseded of the call that fetched it.
IdleList ==
  [pc |-> "idle", fn |-> "", useCache |-> FALSE, hit |-> FALSE,
   superseded |-> FALSE, result |-> NullList, error |-> ""]

\* lines 78-89 (100-111): the cache read and, on a miss, the query.  A list
\* is truthy even when it is empty.
ListBegin(fn, useCache, cache) ==
  LET call == [IdleList EXCEPT !.fn = fn, !.useCache = useCache]
  IN  IF useCache /\ cache # NullList
      THEN [call EXCEPT !.pc = "done", !.hit = TRUE, !.result = cache]
      ELSE [call EXCEPT !.pc = "fetching"]

\* lines 89-92 (111-114): graphqlQuery has settled
ListEnd(call, response) ==
  LET r == graphqlQuery(response)
  IN  IF r.threw # "" THEN [call EXCEPT !.pc = "failed", !.error = r.threw]
      ELSE IF ~r.data.present THEN [call EXCEPT !.pc = "failed", !.error = "TypeError"]
      ELSE [call EXCEPT
              !.pc = "done",
              !.result = [query |-> QueryOf(call.fn),
                          workflows |-> IF r.data.workflows = "list" THEN "list"
                                        ELSE "emptyArray",
                          superseded |-> call.superseded]]

\* one call of graphqlQuery on its own.  pc: "idle", "fetching" (awaiting
\* fetch), "returned", "threw"; fetches counts its calls of fetch and
\* response is what the fetch came to.
IdleRequest ==
  [pc |-> "idle", fetches |-> 0, response |-> Rejected,
   threw |-> "", reason |-> "", data |-> NoData]

\* a page that lists no workflows and sends no query of its own
NoLists ==
  /\ ORG_ID = "org1"
  /\ workflowsCache = NullList
  /\ lists = [c \in Tasks |-> IdleList]
  /\ request = IdleRequest

(***************************************************************************)
(* The actions.                                                            *)
(***************************************************************************)
NoneWritten == [k \in Keys |-> NoResult]

\* the caller calls executeWorkflow(workflowId, inputData, options)
ExecuteWorkflow(c, workflowId, inputData, options) ==
  /\ calls[c].pc \in {"idle", "done", "failed"}
  /\ callsLeft > 0
  /\ callsLeft' = callsLeft - 1
  /\ calls' = [calls EXCEPT ![c] =
        ExecuteWorkflowBegin(workflowId, inputData, options, skip_cache,
                             sessionStorage)]
  /\ UNCHANGED <<skip_cache, sessionStorage, written, formVars,
                 listVars, request>>

\* the start mutation of call c comes back
StartMutationReturns(c, response, behaviour) ==
  /\ calls[c].pc = "starting"
  /\ calls' = [calls EXCEPT ![c] = StartReturned(calls[c], response, behaviour)]
  /\ submit' = SubmitFormResumes(submit, c, calls'[c])
  /\ UNCHANGED <<skip_cache, sessionStorage, callsLeft, written,
                 fieldConfigs, formData, document,
                 listVars, request>>

\* the call and the store after a step of call c; a setItem that did not
\* throw is recorded in written
Commit(c, after) ==
  /\ calls' = [calls EXCEPT ![c] = after.call]
  /\ sessionStorage' = after.store
  /\ written' = IF after.call.stored > calls[c].stored
                THEN [written EXCEPT ![after.call.cacheKey] = after.call.polled]
                ELSE written

\* line 167: the await resumes when waitForWorkflowCompletion has returned
AfterIteration(iterated, store, storeOk) ==
  IF iterated.pc = "returned"
  THEN ExecuteWorkflowEnd(iterated, store, storeOk)
  ELSE [call |-> iterated, store |-> store]

\* a status query of call c comes back: one iteration of the poll loop and,
\* when waitForWorkflowCompletion returns, the rest of executeWorkflow
Poll(c, response, storeOk) ==
  /\ calls[c].pc = "polling"
  /\ response \in Answers(calls[c].remote)
  /\ Commit(c, AfterIteration(PollIteration(calls[c], response),
                               sessionStorage, storeOk))
  /\ submit' = SubmitFormResumes(submit, c, calls'[c])
  /\ UNCHANGED <<skip_cache, callsLeft, fieldConfigs, formData, document,
                 listVars, request>>

ClearWorkflowCache(workflowId, inputData) ==
  LET cleared == ClearedKeys(sessionStorage, workflowId, inputData)
  IN  /\ sessionStorage' = RemoveItems(sessionStorage, cleared)
      /\ written' = [k \in Keys |-> IF k \in cleared THEN NoResult ELSE written[k]]
      /\ calls' = [c \in Tasks |->
                     IF /\ calls[c].pc \in {"starting", "polling"}
                        /\ Touches(calls[c].cacheKey, workflowId, inputData)
                     THEN [calls[c] EXCEPT !.invalidated = TRUE]
                     ELSE calls[c]]
      /\ UNCHANGED <<skip_cache, callsLeft, formVars, listVars, request>>

SetSkipCache(skip) ==
  /\ skip_cache' = skip
  /\ UNCHANGED <<sessionStorage, calls, callsLeft, written, formVars,
                 listVars, request>>

\* the page calls evaluateConditionalVisibility(fieldConfigs)
EvaluateConditionalVisibility ==
  /\ document' = evaluateConditionalVisibility(fieldConfigs, document)
  /\ UNCHANGED <<skip_cache, sessionStorage, calls, callsLeft, written,
                 fieldConfigs, formData, submit,
                 listVars, request>>

\* the user changes the value of the input element of a field
UserInput(name, value) ==
  /\ name \in DOMAIN document.inputs
  /\ document' = [document EXCEPT !.inputs[name].value = value,
                                   !.evaluated = FALSE]
  /\ UNCHANGED <<skip_cache, sessionStorage, calls, callsLeft, written,
                 fieldConfigs, formData, submit,
                 listVars, request>>

\* the page calls validateForm(formData, fieldConfigs)
ValidateForm ==
  /\ submit.pc = "idle"
  /\ submit' = [submit EXCEPT
                  !.pc = "validated",
                  !.validation = validateForm(formData, fieldConfigs, document)]
  /\ UNCHANGED <<skip_cache, sessionStorage, calls, callsLeft, written,
                 fieldConfigs, formData, document,
                 listVars, request>>

\* the page calls submitForm(workflowId, formData, fieldConfigs, options);
\* options carries the hooks and no cache flag
SubmitFormMutant(c, workflowId, hooks) ==
  LET validation == validateForm(formData, fieldConfigs, document)
  IN  /\ submit.pc = "idle"
      /\ calls[c].pc = "idle"
      /\ calls' = [calls EXCEPT ![c] =
                     ExecuteWorkflowBegin(workflowId, FormPayload(formData),
                                          NoOptions, skip_cache, sessionStorage)]
      /\ submit' = SubmitFormBegin(c, hooks, validation, calls'[c])
      /\ UNCHANGED <<skip_cache, sessionStorage, callsLeft, written,
                     fieldConfigs, formData, document,
                 listVars, request>>

SubmitForm(c, workflowId, hooks) ==
  LET validation == validateForm(formData, fieldConfigs, document)
  IN  /\ submit.pc = "idle"
      /\ calls[c].pc = "idle"
      /\ calls' = IF validation.isValid
                  THEN [calls EXCEPT ![c] =
                          ExecuteWorkflowBegin(workflowId, FormPayload(formData),
                                               NoOptions, skip_cache, sessionStorage)]
                  ELSE calls
      /\ submit' = SubmitFormBegin(c, hooks, validation, calls'[c])
      /\ UNCHANGED <<skip_cache, sessionStorage, callsLeft, written,
                     fieldConfigs, formData, document,
                 listVars, request>>

\* a task calls getAllWorkflows(useCache)
GetAllWorkflows(c, useCache) ==
  /\ lists[c].pc \in {"idle", "done", "failed"}
  /\ lists' = [lists EXCEPT ![c] =
                 ListBegin("getAllWorkflows", useCache, workflowsCache)]
  /\ UNCHANGED <<skip_cache, sessionStorage, calls, callsLeft, written, formVars,
                 ORG_ID, workflowsCache, request>>

\* a task calls getAllWorkflowsOG(useCache)
GetAllWorkflowsOG(c, useCache) ==
  /\ lists[c].pc \in {"idle", "done", "failed"}
  /\ lists' = [lists EXCEPT ![c] =
                 ListBegin("getAllWorkflowsOG", useCache, workflowsCache)]
  /\ UNCHANGED <<skip_cache, sessionStorage, calls, callsLeft, written, formVars,
                 ORG_ID, workflowsCache, request>>

\* the query of list call c comes back: the call stores the list (lines 91
\* and 113) and returns it
ListQueryReturns(c, response) ==
  /\ lists[c].pc = "fetching"
  /\ lists' = [lists EXCEPT ![c] = ListEnd(lists[c], response)]
  /\ workflowsCache' = IF lists'[c].pc = "done" THEN lists'[c].result
                        ELSE workflowsCache
  /\ UNCHANGED <<skip_cache, sessionStorage, calls, callsLeft, written, formVars,
                 ORG_ID, request>>

\* clearWorkflowsCache (lines 616-619)
ClearWorkflowsCache ==
  /\ workflowsCache' = NullList
  /\ UNCHANGED <<skip_cache, sessionStorage, calls, callsLeft, written, formVars,
                 ORG_ID, lists, request>>

\* setOrgId (lines 631-634); the list calls that await their query are from
\* now on calls whose fetch began before the change
SetOrgId(orgId) ==
  /\ ORG_ID' = orgId
  /\ workflowsCache' = NullList
  /\ lists' = [c \in Tasks |->
                 IF lists[c].pc = "fetching"
                 THEN [lists[c] EXCEPT !.superseded = TRUE]
                 ELSE lists[c]]
  /\ UNCHANGED <<skip_cache, sessionStorage, calls, callsLeft, written, formVars,
                 request>>

\* graphqlQuery is called: line 49, the one call of fetch
GraphqlQuery ==
  /\ request.pc = "idle"
  /\ request' = [request EXCEPT !.pc = "fetching", !.fetches = @ + 1]
  /\ UNCHANGED <<skip_cache, sessionStorage, calls, callsLeft, written, formVars,
                 listVars>>

\* the fetch settles: lines 54-67
FetchSettles(response) ==
  LET r == graphqlQuery(response)
  IN  /\ request.pc = "fetching"
      /\ request' = [request EXCEPT
                       !.pc = IF r.threw = "" THEN "returned" ELSE "threw",
                       !.response = response,
                       !.threw = r.threw, !.reason = r.reason, !.data = r.data]
      /\ UNCHANGED <<skip_cache, sessionStorage, calls, callsLeft, written,
                     formVars, listVars>>

(***************************************************************************)
(* Spec: the caller makes MaxCalls calls of executeWorkflow, one after the *)
(* other, against remote executions that behave as RemoteBehaviours says,  *)
(* and clears the cache and sets skip_cache between the calls.             *)
(***************************************************************************)
\* sessionStorage outlives the page: it may hold an entry that is not JSON
InitialStores ==
  {EmptyStore, [k \in {CacheKey(J, EmptyPayload)} |-> Garbage]}

\* the caller awaits each call: it calls nothing while a call is in flight
Quiet == \A c \in Tasks : calls[c].pc \notin {"starting", "polling"}

Init ==
  /\ skip_cache = FALSE
  /\ sessionStorage \in InitialStores
  /\ calls = [c \in Tasks |-> IF c = 1 THEN IdleCall ELSE OffCall]
  /\ callsLeft = MaxCalls
  /\ written = NoneWritten
  /\ NoForm
  /\ NoLists

Next ==
  \/ \E c \in Tasks, w \in WorkflowIds, p \in Payloads, o \in Options :
       ExecuteWorkflow(c, w, p, o)
  \/ \E c \in Tasks, r \in StartResponses, b \in RemoteBehaviours :
       StartMutationReturns(c, r, b)
  \/ \E c \in Tasks, storeOk \in BOOLEAN :
       \E r \in Answers(calls[c].remote) : Poll(c, r, storeOk)
  \/ \E w \in WorkflowIds \cup {NullArg}, p \in Payloads \cup {NullInput} :
       Quiet /\ ClearWorkflowCache(w, p)
  \/ \E skip \in BOOLEAN : Quiet /\ SetSkipCache(skip)

Spec == Init /\ [][Next]_vars

(***************************************************************************)
(* SpecPoll: one call that has just entered waitForWorkflowCompletion      *)
(* (line 167), against a remote execution that may answer anything.        *)
(***************************************************************************)
InitPoll ==
  /\ skip_cache = FALSE
  /\ sessionStorage = EmptyStore
  /\ calls = [c \in Tasks |->
                IF c = 1
                THEN [IdleCall EXCEPT !.pc = "polling",
                                      !.cacheKey = CacheKey(J, EmptyPayload),
                                      !.useCache = TRUE,
                                      !.mutations = 1,
                                      !.remote = "any"]
                ELSE OffCall]
  /\ callsLeft = 0
  /\ written = NoneWritten
  /\ NoForm
  /\ NoLists

NextPoll ==
  \E c \in Tasks, storeOk \in BOOLEAN :
    \E r \in Answers(calls[c].remote) : Poll(c, r, storeOk)

SpecPoll == InitPoll /\ [][NextPoll]_vars

\* every status query is answered, and the timers of the waits fire
SpecPollFair == SpecPoll /\ WF_vars(NextPoll)

(***************************************************************************)
(* SpecStatus: one call that has just entered waitForWorkflowCompletion,   *)
(* against a remote execution that reports its status in every spelling.   *)
(***************************************************************************)
InitStatus ==
  /\ skip_cache = FALSE
  /\ sessionStorage = EmptyStore
  /\ calls \in {[c \in Tasks |->
                   IF c = 1
                   THEN [IdleCall EXCEPT !.pc = "polling",
                                         !.cacheKey = CacheKey(J, EmptyPayload),
                                         !.useCache = TRUE,
                                         !.mutations = 1,
                                         !.remote = b]
                   ELSE OffCall] : b \in {"spellings", "empty spellings"}}
  /\ callsLeft = 0
  /\ written = NoneWritten
  /\ NoForm
  /\ NoLists

SpecStatus == InitStatus /\ [][NextPoll]_vars

(***************************************************************************)
(* SpecProgress: one call that has just entered waitForWorkflowCompletion  *)
(* with a progress callback, which returns or throws whenever it is called.*)
(***************************************************************************)
InitProgress ==
  /\ skip_cache = FALSE
  /\ sessionStorage = EmptyStore
  /\ calls \in {[c \in Tasks |->
                   IF c = 1
                   THEN [IdleCall EXCEPT !.pc = "polling",
                                         !.cacheKey = CacheKey(J, EmptyPayload),
                                         !.useCache = FALSE,
                                         !.onProgress = p,
                                         !.mutations = 1,
                                         !.remote = "progress"]
                   ELSE OffCall] : p \in {"returns", "throws"}}
  /\ callsLeft = 0
  /\ written = NoneWritten
  /\ NoForm
  /\ NoLists

SpecProgress == InitProgress /\ [][NextPoll]_vars

(***************************************************************************)
(* SpecConcurrent: two tasks call executeWorkflow('J', {}) with caching    *)
(* enabled, neither awaiting the other; every start mutation starts an     *)
(* execution of its own (the remote of the call), which completes.         *)
(***************************************************************************)
InitConcurrent ==
  /\ skip_cache = FALSE
  /\ sessionStorage = EmptyStore
  /\ calls = [c \in Tasks |-> IdleCall]
  /\ callsLeft = MaxCalls
  /\ written = NoneWritten
  /\ NoForm
  /\ NoLists

NextConcurrent ==
  \/ \E c \in Tasks : ExecuteWorkflow(c, J, EmptyPayload, NoOptions)
  \/ \E c \in Tasks, r \in StartResponses, b \in {"prompt", "late output"} :
       StartMutationReturns(c, r, b)
  \/ \E c \in Tasks, storeOk \in BOOLEAN :
       \E r \in Answers(calls[c].remote) : Poll(c, r, storeOk)

SpecConcurrent == InitConcurrent /\ [][NextConcurrent]_vars

(***************************************************************************)
(* SpecInvalidate: as SpecConcurrent, and the page calls                   *)
(* clearWorkflowCache at any time, also while calls are in flight; the     *)
(* session store takes every write.                                        *)
(***************************************************************************)
NextInvalidate ==
  \/ \E c \in Tasks : ExecuteWorkflow(c, J, EmptyPayload, NoOptions)
  \/ \E c \in Tasks, r \in StartResponses, b \in {"prompt", "late output"} :
       StartMutationReturns(c, r, b)
  \/ \E c \in Tasks : \E r \in Answers(calls[c].remote) : Poll(c, r, TRUE)
  \/ \E w \in {J, J_2, NullArg}, p \in {EmptyPayload, PayloadA1, NullInput} :
       ClearWorkflowCache(w, p)

SpecInvalidate == InitConcurrent /\ [][NextInvalidate]_vars

(***************************************************************************)
(* SpecClear: clearWorkflowCache on a session store that holds an entry    *)
(* under every cache key and under keys that other code of the page owns.  *)
(***************************************************************************)
\* keys of the session store outside the workflow_cache_ namespace
ForeignKeys ==
  {<<"t", "h", "e", "m", "e">>,
   <<"w", "o", "r", "k", "f", "l", "o", "w", "_", "c", "a", "c", "h">>}

\* every key holds a string: a stored result or garbage under a cache key,
\* garbage or "dark" under a foreign key
FullStores ==
  {s \in [Keys \cup ForeignKeys ->
            {Garbage, <<"d", "a", "r", "k">>,
             StringifyResult([output |-> "obj1", errors |-> "emptyArray",
                              status |-> COMPLETED])}] :
     /\ \A k \in Keys : s[k] # <<"d", "a", "r", "k">>
     /\ \A k \in ForeignKeys : s[k] \in {Garbage, <<"d", "a", "r", "k">>}}

\* the arguments of a clearWorkflowCache call
ClearIds == WorkflowIds \cup {NullArg, <<>>}
ClearInputs == Payloads \cup {NullInput}

InitClear ==
  /\ skip_cache = FALSE
  /\ sessionStorage \in FullStores
  /\ calls = [c \in Tasks |-> OffCall]
  /\ callsLeft = 0
  /\ written = NoneWritten
  /\ NoForm
  /\ NoLists

NextClear ==
  \E w \in ClearIds, p \in ClearInputs : ClearWorkflowCache(w, p)

SpecClear == InitClear /\ [][NextClear]_vars

(***************************************************************************)
(* SpecVisibility: a page with a select "kind" and a field "plan" whose    *)
(* configuration may depend on it; the user changes the select and the     *)
(* page calls evaluateConditionalVisibility.                               *)
(***************************************************************************)
Unconditional(name, displayname, type, required, min, max) ==
  FieldConfig(name, displayname, type, required, min, max, FALSE,
              NoCondition, "", NoCondition, "")

\* the conditions of "plan": none, one on the select, and one on a field
\* that has no input element (its evaluation throws)
Conditions == {NoCondition, Condition("kind", <<"a">>), Condition("ghost", <<"a">>)}

InitVisibility ==
  /\ skip_cache = FALSE
  /\ sessionStorage = EmptyStore
  /\ calls = [c \in Tasks |-> OffCall]
  /\ callsLeft = 0
  /\ written = NoneWritten
  /\ fieldConfigs \in
       {<<Unconditional("kind", "Kind", "select", FALSE, 0, 0),
          FieldConfig("plan", "Plan", "text", FALSE, 0, 0, h, c1, a1, c2, a2)>> :
          h \in BOOLEAN, c1 \in Conditions, a1 \in {"show", "hide"},
          c2 \in Conditions, a2 \in {"show", "hide"}}
  /\ formData = <<>>
  \* the display regions: "plan" may have none
  /\ document \in
       {[inputs |-> ("kind" :> Input("select", <<"a">>, FALSE)),
         display |-> d, evaluated |-> FALSE] :
          d \in {("kind" :> "")} \cup
                {("kind" :> "") @@ ("plan" :> x) : x \in {"", "none"}}}
  /\ submit = IdleSubmit
  /\ NoLists

NextVisibility ==
  \/ EvaluateConditionalVisibility
  \/ \E v \in {<<"a">>, <<"b">>} : UserInput("kind", v)

SpecVisibility == InitVisibility /\ [][NextVisibility]_vars

(***************************************************************************)
(* SpecValidate: validateForm on a form with the fields "email" and        *)
(* "name".                                                                 *)
(***************************************************************************)
\* the values of "email" in formData (besides none: undefined)
EmailValues ==
  {Null, Str(<<>>), Arr(<<>>), True,
   Str(<<"a", "b">>),
   Str(<<"a", "@", "b", ".", "c">>),
   Str(<<"a", "@", "b", ".", "c", "d">>)}

Entries(name, values) == {<<>>} \cup {<< <<name, v>> >> : v \in values}

InitValidate ==
  /\ skip_cache = FALSE
  /\ sessionStorage = EmptyStore
  /\ calls = [c \in Tasks |-> OffCall]
  /\ callsLeft = 0
  /\ written = NoneWritten
  /\ fieldConfigs \in
       {<<Unconditional("email", "Email", t, re, min, max),
          Unconditional("name", "Name", "text", rn, 0, 0)>> :
          t \in {"email", "text"}, re \in BOOLEAN, min \in {0, 3}, max \in {0, 4},
          rn \in BOOLEAN}
  /\ formData \in {e \o n : e \in Entries("email", EmailValues),
                              n \in Entries("name", {Str(<<"b", "o", "b">>)})}
  \* the display regions of the two fields: "email" may have none, or be hidden
  /\ document \in
       {[inputs |-> NoMembers, display |-> d, evaluated |-> FALSE] :
          d \in {("name" :> "")} \cup
                {("name" :> "") @@ ("email" :> x) : x \in {"", "none"}}}
  /\ submit = IdleSubmit
  /\ NoLists

NextValidate == ValidateForm

SpecValidate == InitValidate /\ [][NextValidate]_vars

(***************************************************************************)
(* SpecForm: submitForm on a form with one required numeric field "a".     *)
(***************************************************************************)
InitForm ==
  /\ skip_cache = FALSE
  \* the session store may hold the result of an earlier submission of a = 1
  /\ sessionStorage \in
       {EmptyStore,
        [k \in {CacheKey(J, PayloadA1)} |->
           StringifyResult([output |-> "obj1", errors |-> "emptyArray",
                            status |-> COMPLETED])]}
  /\ calls = [c \in Tasks |-> IF c = 1 THEN IdleCall ELSE OffCall]
  /\ callsLeft = 0
  /\ written = NoneWritten
  /\ fieldConfigs \in {<<>>, <<Unconditional("a", "A", "number", TRUE, 0, 0)>>}
  /\ formData \in Entries("a", {Num("1")})
  /\ document \in {[inputs |-> NoMembers, display |-> d, evaluated |-> FALSE] :
                      d \in {NoMembers, ("a" :> ""), ("a" :> "none")}}
  /\ submit = IdleSubmit
  /\ NoLists

NextForm ==
  \/ \E c \in Tasks, hooks \in Hooks : SubmitForm(c, J, hooks)
  \/ \E c \in Tasks, r \in StartResponses, b \in RemoteBehaviours :
       StartMutationReturns(c, r, b)
  \/ \E c \in Tasks, storeOk \in BOOLEAN :
       \E r \in Answers(calls[c].remote) : Poll(c, r, storeOk)

SpecForm == InitForm /\ [][NextForm]_vars

(***************************************************************************)
(* SpecLists: two tasks call getAllWorkflows and getAllWorkflowsOG, with   *)
(* and without the cache, neither awaiting the other, while the page       *)
(* changes the organization and clears the list cache.                     *)
(***************************************************************************)
\* the answers to a workflows query: data.workflows may be missing
ListResponses ==
  QueryFailures \cup
  {Http(TRUE, FALSE, ListData(w)) : w \in {"undefined", "emptyArray", "list"}}

InitLists ==
  /\ skip_cache = FALSE
  /\ sessionStorage = EmptyStore
  /\ calls = [c \in Tasks |-> OffCall]
  /\ callsLeft = 0
  /\ written = NoneWritten
  /\ NoForm
  /\ NoLists

NextLists ==
  \/ \E c \in Tasks, useCache \in BOOLEAN : GetAllWorkflows(c, useCache)
  \/ \E c \in Tasks, useCache \in BOOLEAN : GetAllWorkflowsOG(c, useCache)
  \/ \E c \in Tasks, r \in ListResponses : ListQueryReturns(c, r)
  \/ \E o \in {"org1", "org2"} : SetOrgId(o)
  \/ ClearWorkflowsCache

SpecLists == InitLists /\ [][NextLists]_vars

(***************************************************************************)
(* SpecQuery: one call of graphqlQuery, whose fetch may come to anything.  *)
(***************************************************************************)
\* the data member of a body
DataMembers ==
  {NoData}
  \cup {StartData(t) : t \in {"none", "no executionId", "executionId",
                               "nested executionId"}}
  \cup {ListData(w) : w \in {"undefined", "emptyArray", "list"}}
  \cup {StatusData(e) : e \in {NoExecution,
                                Execution(RUNNING, "undefined", "undefined"),
                                Execution(COMPLETED, "obj1", "emptyArray")}}

AnyResponses ==
  {Rejected} \cup {NotJSON(ok) : ok \in BOOLEAN}
  \cup {Body(ok, e, d) : ok \in BOOLEAN, e \in ErrorsMembers, d \in DataMembers}

NextQuery ==
  \/ GraphqlQuery
  \/ \E r \in AnyResponses : FetchSettles(r)

SpecQuery == InitLists /\ [][NextQuery]_vars

(***************************************************************************)
(* Properties.                                                             *)
(***************************************************************************)
TimeoutError  == "Workflow execution timeout after 5 minutes"
NotFoundError == "Execution not found after retries"

\* the call of task c has entered waitForWorkflowCompletion
Entered(c) == calls[c].remote # ""

\* waitForWorkflowCompletion has returned a value to the call of task c
Returned(c) == calls[c].polled # NoResult

\* C1: a call of executeWorkflow with caching enabled, for a key under which
\* an earlier call has written its result and which no clearWorkflowCache has
\* removed since, returns the result that was written and issues no network
\* call (no start mutation, no status query).
C1_CacheHitReturnsStoredResult ==
  [][\A c \in Tasks, w \in WorkflowIds, p \in Payloads, o \in Options :
       ( /\ ExecuteWorkflow(c, w, p, o)
         /\ ResolveUseCache(o, skip_cache)
         /\ written[CacheKey(w, p)] # NoResult )
       => /\ calls'[c].pc = "done"
          /\ calls'[c].result = written[CacheKey(w, p)]
          /\ calls'[c].mutations = 0
          /\ calls'[c].queries = 0
          /\ sessionStorage' = sessionStorage]_vars

\* a call was answered from the cache with the result an earlier call wrote
C1_Witness ==
  \E c \in Tasks :
    /\ calls[c].pc = "done"
    /\ calls[c].hit
    /\ calls[c].mutations = 0
    /\ calls[c].result = written[calls[c].cacheKey]
    /\ calls[c].result.output = "obj2"

\* C2: as long as every status response resolves the execution with a
\* non-terminal status, the number of status queries equals attempts, the
\* poller polls on while attempts < 150, and at attempts = 150 it has failed
\* with the timeout error after exactly 150 queries; it never returns.
C2_TimeoutAfter150Queries ==
  \A c \in Tasks :
    (Entered(c) /\ calls[c].hist = "runs")
    => /\ calls[c].queries = calls[c].attempts
       /\ calls[c].attempts <= maxAttempts
       /\ ~Returned(c)
       /\ calls[c].pc \in {"polling", "failed"}
       /\ calls[c].pc = "polling" <=> calls[c].attempts < maxAttempts
       /\ calls[c].pc = "failed" => /\ calls[c].error = TimeoutError
                                    /\ calls[c].queries = 150

C2_Witness ==
  \E c \in Tasks :
    /\ Entered(c) /\ calls[c].hist = "runs"
    /\ calls[c].pc = "failed"
    /\ calls[c].error = TimeoutError
    /\ calls[c].queries = 150

\* C3 (as claimed): after a status response without an execution that came
\* when attempts was already 5 or more, the poller has failed with the
\* execution-not-found error and has taken no wait.
C3_NotFoundFailsAtOnce ==
  \A c \in Tasks :
    (calls[c].last.kind = "absent" /\ calls[c].attempts > notFoundGrace)
    => /\ calls[c].pc = "failed"
       /\ calls[c].error = NotFoundError
       /\ calls[c].last.wait = 0

\* the terminal responses of the call of task c whose output was absent or {}
\* (hist "empties" or "grace": firstTerminalAttempts non-terminal responses
\* came first, and the returning response is not one of them)
EmptyPolls(c) ==
  calls[c].queries - calls[c].firstTerminalAttempts
    - (IF calls[c].hist = "grace" THEN 1 ELSE 0)

\* C4 (as claimed): when non-terminal responses are followed by 9 terminal
\* responses with empty output and then a terminal response with output, the
\* poller returns that output, has used 9 empty-output retries, and attempts
\* is 9 lower than at the first terminal response.
C4_AttemptsNineLower ==
  \A c \in Tasks :
    (calls[c].hist = "grace" /\ EmptyPolls(c) = 9)
    => /\ Returned(c)
       /\ calls[c].polled.output = calls[c].last.output
       /\ ~IsEmptyOutput(calls[c].polled.output)
       /\ calls[c].emptyOutputRetries = 9
       /\ calls[c].attempts = calls[c].firstTerminalAttempts - 9

\* C4 (amended): the same, with attempts ending at the larger of 0 and its
\* value at the first terminal response minus 9.
C4_AttemptsNineLowerFloored ==
  \A c \in Tasks :
    (calls[c].hist = "grace" /\ EmptyPolls(c) = 9)
    => /\ Returned(c)
       /\ calls[c].polled.output = calls[c].last.output
       /\ ~IsEmptyOutput(calls[c].polled.output)
       /\ calls[c].emptyOutputRetries = 9
       /\ calls[c].attempts = Max(0, calls[c].firstTerminalAttempts - 9)

\* 3 non-terminal polls, 9 empty terminal polls, then output: attempts ends at 0
C4_Witness ==
  \E c \in Tasks :
    /\ calls[c].hist = "grace" /\ EmptyPolls(c) = 9
    /\ calls[c].firstTerminalAttempts = 3
    /\ calls[c].attempts = 0
    /\ calls[c].polled.output = "obj2"

\* C5: the output of every result the poller returns is neither null nor
\* undefined; and when every status response is terminal with absent or {}
\* output, the poller does not fail, retries 10 times and returns on the
\* 11th response a result whose output is {}.
C5_OutputNeverAbsent ==
  \A c \in Tasks :
    /\ Returned(c) => calls[c].polled.output \notin {"undefined", "null", "-"}
    /\ ( /\ Entered(c)
         /\ calls[c].hist = "empties"
         /\ calls[c].firstTerminalAttempts = 0 )
       => /\ calls[c].emptyOutputRetries <= maxEmptyOutputRetries
          /\ calls[c].pc = "failed" => Returned(c)
          /\ ~Returned(c) => /\ calls[c].pc = "polling"
                             /\ calls[c].queries = calls[c].emptyOutputRetries
          /\ Returned(c) => /\ calls[c].emptyOutputRetries = 10
                            /\ calls[c].queries = 11
                            /\ calls[c].polled.output = "emptyObject"

C5_Witness ==
  \E c \in Tasks :
    /\ calls[c].hist = "empties"
    /\ calls[c].firstTerminalAttempts = 0
    /\ calls[c].queries = 11
    /\ calls[c].last.output = "undefined"
    /\ calls[c].polled.output = "emptyObject"

\* the status queries that fail with a transport or remote error
TransportOrRemoteErrors == {Rejected, HttpError, GraphQLError}

\* C6: a status query that fails with a transport or remote error adds one to
\* attempts and leaves emptyOutputRetries as it is; if attempts is then still
\* below 150 the poller waits 1000 ms and polls on, otherwise it fails with
\* the error of that query.
C6_QueryErrorRetried ==
  [][\A c \in Tasks, r \in TransportOrRemoteErrors, storeOk \in BOOLEAN :
       Poll(c, r, storeOk)
       => /\ calls'[c].attempts = calls[c].attempts + 1
          /\ calls'[c].emptyOutputRetries = calls[c].emptyOutputRetries
          /\ calls'[c].queries = calls[c].queries + 1
          /\ IF calls[c].attempts + 1 < maxAttempts
             THEN /\ calls'[c].pc = "polling"
                  /\ calls'[c].last.wait = 1000
             ELSE /\ calls'[c].pc = "failed"
                  /\ calls'[c].error = graphqlQuery(r).threw
                  /\ calls'[c].error # TimeoutError
                  /\ calls'[c].last.wait = 0]_vars

\* the 150th attempt ended in a query error, which was rethrown, after
\* empty-output retries had been used
C6_Witness ==
  \E c \in Tasks :
    /\ calls[c].last.kind = "error"
    /\ calls[c].pc = "failed"
    /\ calls[c].error = "GraphQL Error"
    /\ calls[c].attempts = 150
    /\ calls[c].emptyOutputRetries = 2

\* C7: a status response without an execution while attempts is below 5 adds
\* one to attempts, is followed by a wait of 500 ms and another query, leaves
\* emptyOutputRetries as it is and does not fail.
C7_AbsentInGraceRetried ==
  [][\A c \in Tasks, storeOk \in BOOLEAN :
       (Poll(c, AbsentResponse, storeOk) /\ calls[c].attempts < 5)
       => /\ calls'[c].attempts = calls[c].attempts + 1
          /\ calls'[c].last.wait = 500
          /\ calls'[c].pc = "polling"
          /\ calls'[c].emptyOutputRetries = calls[c].emptyOutputRetries
          /\ calls'[c].queries = calls[c].queries + 1]_vars

\* the execution was absent on the 5th attempt, after an empty-output retry
C7_Witness ==
  \E c \in Tasks :
    /\ calls[c].last.kind = "absent"
    /\ calls[c].last.wait = 500
    /\ calls[c].attempts = 5
    /\ calls[c].emptyOutputRetries = 1
    /\ calls[c].pc = "polling"

\* C8 (as claimed): no call of executeWorkflow fails with an error of the
\* session store: neither the error setItem throws on the cache write nor
\* the error of parsing an unparsable entry on the cache read.
C8_StoreFailureNeverFailsCall ==
  \A c \in Tasks :
    calls[c].pc = "failed"
    => calls[c].error \notin {"QuotaExceededError", "SyntaxError"}

\* a call of task c is between its start and its end
InFlight(c) == calls[c].pc \in {"starting", "polling"}

\* C9: a call that has failed has not changed the session store; setItem is
\* not called before waitForWorkflowCompletion has returned, and once it has
\* returned setItem has been called exactly once if caching is enabled and
\* not at all otherwise; while a call is in flight the store changes only in
\* the step in which the poller returns and the call completes.
C9_NoWriteUnlessPolled ==
  [][\A c \in Tasks :
       /\ calls'[c].pc = "failed" => calls'[c].stored = 0
       /\ calls'[c].polled = NoResult => calls'[c].setItems = 0
       /\ calls'[c].polled # NoResult
            => calls'[c].setItems = (IF calls'[c].useCache THEN 1 ELSE 0)
       /\ (InFlight(c) /\ calls'[c].pc = "failed")
            => sessionStorage' = sessionStorage
       /\ (calls[c].pc = "starting" \/ callsLeft' # callsLeft)
            => sessionStorage' = sessionStorage
       /\ (InFlight(c) /\ sessionStorage' # sessionStorage)
            => /\ calls'[c].pc = "done"
               /\ calls'[c].polled # NoResult
               /\ calls'[c].useCache
               /\ sessionStorage' =
                    SetItem(sessionStorage, calls[c].cacheKey,
                            StringifyResult(calls'[c].polled))]_vars

\* a call with caching enabled timed out and left no entry under its key
C9_Witness ==
  \E c \in Tasks :
    /\ calls[c].pc = "failed"
    /\ calls[c].error = TimeoutError
    /\ calls[c].useCache
    /\ ~HasItem(sessionStorage, calls[c].cacheKey)

\* C10 (as claimed): a call with options.useCache === true and
\* options.skip_cache not set uses the cache, whatever the global setting;
\* and a call with nothing set uses the cache when the global setting is off.
C10_ExplicitUseCacheWins ==
  \A c \in Tasks :
    /\ (calls[c].options.useCache = "true" /\ calls[c].options.skip_cache = "unset")
         => calls[c].useCache
    /\ (calls[c].pc = "starting" /\ calls[c].options = NoOptions /\ ~skip_cache)
         => calls[c].useCache

\* C11: clearWorkflowCache changes no entry that it leaves in the store and
\* adds none.  Without a workflow id it removes every key of the
\* workflow_cache_ namespace and leaves exactly the other keys; with a
\* workflow id only it removes every entry of that workflow and no key
\* outside the namespace; with a workflow id and an input object it removes
\* the entry under the fingerprint of the two and nothing else.
C11_ClearModes ==
  [][\A w \in ClearIds, p \in ClearInputs :
       ClearWorkflowCache(w, p)
       => /\ DOMAIN sessionStorage' \subseteq DOMAIN sessionStorage
          /\ \A k \in DOMAIN sessionStorage' : sessionStorage'[k] = sessionStorage[k]
          /\ (w \in {NullArg, <<>>})
               => DOMAIN sessionStorage' = DOMAIN sessionStorage \cap ForeignKeys
          /\ (w \in WorkflowIds /\ p = NullInput)
               => /\ \A q \in Payloads : ~HasItem(sessionStorage', CacheKey(w, q))
                  /\ DOMAIN sessionStorage \cap ForeignKeys \subseteq DOMAIN sessionStorage'
          /\ (w \in WorkflowIds /\ p \in Payloads)
               => DOMAIN sessionStorage' = DOMAIN sessionStorage \ {CacheKey(w, p)}]_vars

\* clearWorkflowCache(J_2, {a: 1}) has removed that one entry: the other
\* entry of J_2, the entries of J and the foreign keys are still there
C11_Witness ==
  DOMAIN sessionStorage = (Keys \cup ForeignKeys) \ {CacheKey(J_2, PayloadA1)}

LaunchError == "Failed to start workflow execution"

\* the start responses that graphqlQuery returns (it does not throw) and that
\* carry no execution id
WithoutExecutionId ==
  {r \in StartResponses :
     /\ graphqlQuery(r).threw = ""
     /\ r.data.testResult \notin {"executionId", "nested executionId"}}

\* C12 (as claimed): when the start response carries no execution id the call
\* fails with the launch error, having issued no status query and written
\* nothing; a call that has issued a status query has issued exactly one
\* start mutation before it, and no call issues more than one.
C12_StartBeforeStatusQueries ==
  [][\A c \in Tasks :
       /\ \A r \in WithoutExecutionId, b \in RemoteBehaviours :
            StartMutationReturns(c, r, b)
            => /\ calls'[c].pc = "failed"
               /\ calls'[c].error = LaunchError
               /\ calls'[c].queries = 0
               /\ calls'[c].setItems = 0
               /\ sessionStorage' = sessionStorage
       /\ calls'[c].mutations <= 1
       /\ calls'[c].queries > 0 => calls'[c].mutations = 1
       /\ calls'[c].queries > calls[c].queries => calls[c].pc = "polling"]_vars

\* C13: after a submitForm call whose validation failed, executeWorkflow has
\* not been called (no start mutation, no status query, no read or write of
\* the session store) and onSuccess has not been called; after one whose
\* validation passed, executeWorkflow has been called, and onSuccess is
\* called exactly when that call has returned, once, with its result.
C13_LaunchOnlyIfValid ==
  [][/\ \A c \in Tasks, hooks \in Hooks :
          (SubmitForm(c, J, hooks) /\ ~submit'.validation.isValid)
          => /\ calls' = calls
             /\ sessionStorage' = sessionStorage
     /\ (submit'.pc # "idle" /\ ~submit'.validation.isValid)
          => /\ calls'[submit'.task] = IdleCall
             /\ submit'.onSuccessCalls = <<>>
     /\ (submit'.pc # "idle" /\ submit'.validation.isValid)
          => /\ calls'[submit'.task].pc # "idle"
             /\ submit'.onSuccessCalls # <<>>
                  => /\ calls'[submit'.task].pc = "done"
                     /\ submit'.onSuccessCalls =
                          <<ResultArg(calls'[submit'.task].result)>>
             /\ (submit'.hooks.onSuccess /\ calls'[submit'.task].pc = "done")
                  => submit'.onSuccessCalls # <<>>
             /\ (submit'.hooks.onSuccess /\ calls'[submit'.task].pc # "done")
                  => submit'.onSuccessCalls = <<>>]_vars

\* a valid form was submitted, the workflow was started and polled, and
\* onSuccess got the result of the poller
C13_Witness ==
  /\ submit.pc = "resolved"
  /\ submit.validation.isValid
  /\ calls[submit.task].queries > 1
  /\ submit.result.output = "obj2"
  /\ submit.onSuccessCalls = <<ResultArg(submit.result)>>

\* C14 (as claimed): a submitForm call whose validation failed, with an
\* onError hook, has called the hook once, with the errors mapping, and is
\* not rejected; without the hook it is rejected with the validation error.
C14_ValidationFailureNotThrown ==
  (submit.pc # "idle" /\ ~submit.validation.isValid)
  => IF submit.hooks.onError
     THEN /\ submit.pc # "rejected"
          /\ submit.onErrorCalls = <<ErrorsArg(submit.validation.errors)>>
     ELSE /\ submit.pc = "rejected"
          /\ submit.error = ValidationFailed

\* the condition holds of the page: it is on the select and the select has
\* the value it names (the evaluation of a condition on "ghost" throws)
Met(condition) ==
  /\ condition.field = "kind"
  /\ document.inputs["kind"].value = condition.equals

\* the condition is set and its action is 'show'
Shows(condition, action) == condition # NoCondition /\ action = "show"

\* the display region of the field is shown
Shown(name) == document.display[name] = ""

\* C15: once evaluateConditionalVisibility has run, every configured field
\* with a display region is shown iff: it is not hidden, when neither
\* condition has action 'show'; condition_1 holds, when only condition_1 has
\* action 'show' (whatever hidden is); condition_2 holds and the field would
\* be shown without condition_2, when condition_2 has action 'show'.  A
\* condition whose evaluation throws does not hold.
C15_VisibilityPrecedence ==
  document.evaluated
  => \A i \in DOMAIN fieldConfigs :
       LET f == fieldConfigs[i]
           one == Shows(f.condition_1, f.condition_1_action)
           two == Shows(f.condition_2, f.condition_2_action)
       IN  f.field_name \in DOMAIN document.display
           => /\ (~one /\ ~two) => (Shown(f.field_name) <=> ~f.hidden)
              /\ (one /\ ~two) => (Shown(f.field_name) <=> Met(f.condition_1))
              /\ (~one /\ two)
                   => (Shown(f.field_name) <=> (~f.hidden /\ Met(f.condition_2)))
              /\ (one /\ two)
                   => (Shown(f.field_name)
                        <=> (Met(f.condition_1) /\ Met(f.condition_2)))
              /\ (one /\ f.condition_1.field = "ghost") => ~Shown(f.field_name)

\* a hidden field whose condition_1 holds is shown
C15_Witness ==
  /\ document.evaluated
  /\ "plan" \in DOMAIN document.display
  /\ fieldConfigs[2].hidden
  /\ Shows(fieldConfigs[2].condition_1, fieldConfigs[2].condition_1_action)
  /\ Met(fieldConfigs[2].condition_1)
  /\ ~Shows(fieldConfigs[2].condition_2, fieldConfigs[2].condition_2_action)
  /\ Shown("plan")

\* the messages validateForm has recorded for a field
ErrorsOf(name) ==
  IF name \in DOMAIN submit.validation.errors
  THEN submit.validation.errors[name] ELSE <<>>

Recorded(name, message) ==
  \E k \in DOMAIN ErrorsOf(name) : ErrorsOf(name)[k] = message

\* the display region of the field is hidden
HiddenNow(name) ==
  /\ name \in DOMAIN document.display
  /\ document.display[name] = "none"

\* C16: validateForm has recorded no 'is required' error for a required
\* field whose display region is hidden, whatever its value; for a required
\* field that is not hidden and whose value is absent, null, '' or [], it
\* has recorded '<display name> is required' and isValid is false.
C16_RequiredUnlessHidden ==
  submit.pc = "validated"
  => \A i \in DOMAIN fieldConfigs :
       LET f == fieldConfigs[i]
           required == <<f.field_displayname, " is required">>
       IN  f.required
           => IF HiddenNow(f.field_name)
              THEN ~Recorded(f.field_name, required)
              ELSE Lookup(formData, f.field_name)
                     \in {Undefined, Null, Str(<<>>), Arr(<<>>)}
                   => /\ Recorded(f.field_name, required)
                      /\ ~submit.validation.isValid

\* a required, hidden field without a value, and a valid form
C16_Witness ==
  /\ submit.pc = "validated"
  /\ fieldConfigs[1].required
  /\ HiddenNow("email")
  /\ Lookup(formData, "email") = Undefined
  /\ submit.validation.isValid

\* the errors of a field whose value is a non-empty string, in the order
\* email, min length, max length
StringErrors(f, text) ==
  (IF f.type = "email" /\ ~emailRegexTest(text) THEN <<MustBeEmail(f)>> ELSE <<>>)
  \o (IF f.min_length # 0 /\ Len(text) < f.min_length THEN <<TooShort(f)>> ELSE <<>>)
  \o (IF f.max_length # 0 /\ Len(text) > f.max_length THEN <<TooLong(f)>> ELSE <<>>)

\* C17 (as claimed): for every field whose value is a non-empty string,
\* whatever its required flag and its visibility, validateForm has recorded
\* exactly the email, min-length and max-length errors that apply, in that
\* order; and isValid is false exactly when a field has an error.
C17_ChecksOnEveryPresentValue ==
  submit.pc = "validated"
  => /\ \A i \in DOMAIN fieldConfigs :
          LET f == fieldConfigs[i]
              value == Lookup(formData, f.field_name)
          IN  (value.kind = "string" /\ value.text # <<>>)
              => ErrorsOf(f.field_name) = StringErrors(f, value.text)
     /\ submit.validation.isValid
          <=> \A n \in DOMAIN submit.validation.errors :
                submit.validation.errors[n] = <<>>

\* the statuses whose upper-cased form is COMPLETED, SUCCESS, SUCCEEDED,
\* FAILED or ERROR
TerminalSpellings ==
  {COMPLETED, Completed, completed, SUCCESS, SUCCEEDED, succeeded, FAILED,
   failed, ERROR}

\* C18: a status response whose status is one of the terminal spellings
\* takes the terminal branch whatever its case: attempts is not incremented,
\* and the poller returns the response's result or, the output being empty,
\* waits 2500 ms for the next query.  Every other status, a missing one and
\* one that is not a string included, counts as still running: attempts is
\* incremented, the poller waits 2000 ms and queries again (unless attempts
\* has reached 150).
C18_TerminalCaseInsensitive ==
  [][\A c \in Tasks, storeOk \in BOOLEAN, s \in Statuses,
        o \in {"emptyObject", "obj1"} :
       Poll(c, StatusResponse(s, o, "undefined"), storeOk)
       => IF s \in TerminalSpellings
          THEN /\ calls'[c].last.kind = "terminal"
               /\ calls'[c].attempts <= calls[c].attempts
               /\ IF calls'[c].pc = "polling"
                  THEN /\ o = "emptyObject"
                       /\ calls'[c].last.wait = 2500
                       /\ calls'[c].emptyOutputRetries = calls[c].emptyOutputRetries + 1
                  ELSE /\ calls'[c].polled.status = s
                       /\ calls'[c].polled.output = o
                       /\ calls'[c].last.wait = 0
          ELSE /\ calls'[c].last.kind = "running"
               /\ calls'[c].attempts = calls[c].attempts + 1
               /\ calls'[c].last.wait = 2000
               /\ calls'[c].polled = NoResult
               /\ calls'[c].pc = "polling" <=> calls'[c].attempts < 150
               /\ calls'[c].pc \in {"polling", "failed"}]_vars

\* the poller returned on the status 'Completed' after the statuses
\* 'pending' or 42 had kept it polling
C18_Witness ==
  \E c \in Tasks :
    /\ calls[c].remote = "spellings"
    /\ calls[c].polled.status = Completed
    /\ calls[c].polled.output = "obj1"
    /\ calls[c].attempts = 2
    /\ calls[c].queries = 3

\* the two counters of the poll loop, the wait taken and the outcome
LoopState(call) ==
  <<call.attempts, call.emptyOutputRetries, call.last.wait, call.pc,
    call.polled, call.result, call.error>>

\* the call of task c as one iteration on the response leaves it when its
\* progress callback returns normally
WithQuietCallback(c, response, storeOk) ==
  AfterIteration(PollIteration([calls[c] EXCEPT !.onProgress = "returns"], response),
                 sessionStorage, storeOk).call

\* C19: in the iteration on a status response the progress callback is
\* called, with the status and numSuccessfulTasks of the response, if the
\* response resolves the execution (terminal or not, with or without
\* output), and is not called if the execution is absent; and after the
\* iteration attempts, emptyOutputRetries, the wait taken and the outcome of
\* the poller are what they would be had the callback returned normally,
\* also when it throws.
C19_ProgressCallback ==
  [][\A c \in Tasks, storeOk \in BOOLEAN, r \in ProgressAnswers :
       Poll(c, r, storeOk)
       => /\ calls'[c].last.progress =
               IF r.data.execution.found
               THEN [called |-> TRUE, status |-> r.data.execution.status,
                     tasks |-> r.data.execution.numSuccessfulTasks]
               ELSE NoProgress
          /\ LoopState(calls'[c]) = LoopState(WithQuietCallback(c, r, storeOk))]_vars

\* a callback that throws was called on every resolving response, the last
\* of them with ('completed', 4), and the poller returned after two
\* empty-output retries
C19_Witness ==
  \E c \in Tasks :
    /\ calls[c].onProgress = "throws"
    /\ calls[c].last.progress = [called |-> TRUE, status |-> completed, tasks |-> 4]
    /\ calls[c].emptyOutputRetries = 2
    /\ calls[c].pc = "done"
    /\ calls[c].result.output = "obj1"

\* C20: a call of executeWorkflow('J', {}) that reads the cache while the
\* store holds no entry under its key misses, whether or not another call for the same key
\* is in flight, and issues a start mutation of its own; a call returns
\* the result of the execution it started itself; and every call that
\* completes writes its result under the key, over whatever is there, so
\* that the entry holds the result of the call that completed last.
C20_NoInFlightDeduplication ==
  [][\A c \in Tasks :
       /\ ( /\ ExecuteWorkflow(c, J, EmptyPayload, NoOptions)
            /\ ~HasItem(sessionStorage, CacheKey(J, EmptyPayload)) )
          => /\ calls'[c].pc = "starting"
             /\ calls'[c].mutations = 1
             /\ ~calls'[c].hit
       /\ (calls[c].pc = "polling" /\ calls'[c].pc = "done")
          => /\ calls'[c].mutations = 1
             /\ calls'[c].queries >= 1
             /\ calls'[c].result.output \in
                  (IF calls'[c].remote = "prompt" THEN {"obj1"}
                   ELSE {"obj2", "emptyObject"})
             /\ HasItem(sessionStorage', calls'[c].cacheKey)
             /\ sessionStorage'[calls'[c].cacheKey] = StringifyResult(calls'[c].result)
             /\ written'[calls'[c].cacheKey] = calls'[c].result]_vars

\* both calls missed, each started and polled an execution of its own, and
\* the entry holds the result of the first call, which completed last
C20_Witness ==
  /\ \A c \in Tasks : calls[c].pc = "done" /\ ~calls[c].hit /\ calls[c].mutations = 1
  /\ calls[1].result.output = "obj1"
  /\ calls[2].result.output = "obj2"
  /\ calls[1].cacheKey = calls[2].cacheKey
  /\ sessionStorage[calls[1].cacheKey] = StringifyResult(calls[1].result)

\* C21: a list call with useCache = true that is answered from the cache
\* never returns a list whose fetch began before a setOrgId call that has
\* since returned.
C21_NoListFromBeforeOrgChange ==
  \A c \in Tasks :
    (lists[c].pc = "done" /\ lists[c].useCache /\ lists[c].hit)
      => ~lists[c].result.superseded

\* C22: the list a call of getAllWorkflows or getAllWorkflowsOG returns came
\* from the query of that function.
C22_EachListFromItsOwnQuery ==
  \A c \in Tasks :
    lists[c].pc = "done" => lists[c].result.query = QueryOf(lists[c].fn)

\* C23: a call of graphqlQuery whose fetch was answered has called fetch
\* once; it returns the body's data exactly when the status is successful
\* and the body has no errors list; on a non-success status it throws the
\* HTTP error, and on a successful status with an errors list the GraphQL
\* error, each with the first error's message.
C23_OneRequestAndFailureClasses ==
  (request.pc \in {"returned", "threw"} /\ request.response.net # "reject")
    => /\ request.fetches = 1
       /\ request.pc = "returned"
            <=> (request.response.ok /\ ~request.response.hasErrors)
       /\ request.pc = "returned" => request.data = request.response.data
       /\ ~request.response.ok
            => /\ request.threw = "GraphQL HTTP"
               /\ request.reason = FirstMessage(request.response.errors)
       /\ (request.response.ok /\ request.response.hasErrors)
            => /\ request.threw = "GraphQL Error"
               /\ request.reason = FirstMessage(request.response.errors)

\* C24: waitForWorkflowCompletion returns or throws whatever the status
\* responses are, after at most 170 status queries (maxAttempts plus two
\* for each of the maxEmptyOutputRetries retries); emptyOutputRetries never
\* goes down and never exceeds 10.
C24_PollerTerminates ==
  /\ [](\A c \in Tasks :
          /\ calls[c].queries <= maxAttempts + 2 * maxEmptyOutputRetries
          /\ calls[c].emptyOutputRetries <= maxEmptyOutputRetries)
  /\ [][\A c \in Tasks :
          calls'[c].emptyOutputRetries >= calls[c].emptyOutputRetries]_vars
  /\ <>(\A c \in Tasks : calls[c].pc # "polling")

\* the call that needed all 170 queries: ten retries, each of which took
\* the attempts counter one down, and the timeout
C24_Witness ==
  /\ calls[1].queries = 170
  /\ calls[1].emptyOutputRetries = 10
  /\ calls[1].pc = "failed"
  /\ calls[1].error = TimeoutError

\* C25: clearWorkflowCache(A) with a workflow id only leaves every entry of
\* every other workflow id B as it is.
C25_OtherWorkflowsUntouched ==
  [][\A a \in WorkflowIds :
       ClearWorkflowCache(a, NullInput)
         => \A b \in WorkflowIds \ {a}, p \in Payloads :
              HasItem(sessionStorage, CacheKey(b, p))
                => /\ HasItem(sessionStorage', CacheKey(b, p))
                   /\ sessionStorage'[CacheKey(b, p)] = sessionStorage[CacheKey(b, p)]]_vars

\* C26: a submitForm call with an onError hook that has failed has called the
\* hook exactly once, with the validation errors when the validation failed
\* and with the execution error otherwise; one that has succeeded has not
\* called it.
C26_OnErrorExactlyOnce ==
  /\ (submit.pc = "rejected" /\ submit.hooks.onError)
       => /\ Len(submit.onErrorCalls) = 1
          /\ submit.onErrorCalls[1] =
               IF submit.validation.isValid THEN ErrorArg(submit.error)
               ELSE ErrorsArg(submit.validation.errors)
  /\ submit.pc = "resolved" => submit.onErrorCalls = <<>>

\* C27: while the entry of key K is absent, a call for K that was in flight
\* when clearWorkflowCache last touched K does not create the entry.
C27_InFlightCallDoesNotRecreate ==
  [][\A c \in Tasks :
       ( /\ calls[c].pc = "polling"
         /\ calls[c].invalidated
         /\ ~HasItem(sessionStorage, calls[c].cacheKey) )
       => ~HasItem(sessionStorage', calls[c].cacheKey)]_vars

\* C28: a call that has written the cache returned on a status response
\* whose output was not empty, and a call answered from the cache does not
\* get a result with the empty output {}.
C28_GiveUpResultNeverCached ==
  \A c \in Tasks :
    /\ (calls[c].pc = "done" /\ calls[c].stored > 0)
         => ~IsEmptyOutput(calls[c].last.output)
    /\ (calls[c].pc = "done" /\ calls[c].hit)
         => ~IsEmptyOutput(calls[c].result.output)

====
